---- MODULE Spec2Model ----
(***************************************************************************)
(* Model of web-app/api/compare_vms/__init__.py: the HTTP handler `main`   *)
(* that compares one Azure VM SKU against the other SKUs of a location,    *)
(* and its helpers extract_capabilities, calculate_similarity,             *)
(* get_vm_pricing and get_availability_zones.                              *)
(*                                                                         *)
(* Conventions.                                                            *)
(*  - A Python dict is a function whose DOMAIN is the set of keys present; *)
(*    d.get(k, default) is Get(d, k, default).                             *)
(*  - A raw attribute value (a Python str) is a tuple of one-character     *)
(*    strings, so that int() and float() are computed digit by digit.      *)
(*  - A Python float is an IEEE-754 binary64 number, and its arithmetic    *)
(*    rounds as the hardware does: every sum, product and quotient is the  *)
(*    float nearest to the exact result.  The JSON numbers of a request    *)
(*    (weights, minSimilarityScore) are floats as well; an int among them  *)
(*    has the same value and compares the same.                            *)
(*  - A function that may raise returns [ok |-> TRUE, val |-> v] or        *)
(*    [ok |-> FALSE, err |-> <exception type>].                            *)
(***************************************************************************)
EXTENDS Integers, Sequences, FiniteSets, TLC

\* Bounds of the model.
MaxSkus == 4
MaxVal == 3

Abs(x) == IF x < 0 THEN -x ELSE x

(***************************************************************************)
(* Natural numbers of any size: little-endian sequences of 15-bit limbs    *)
(* without a leading zero limb (0 is <<>>).                                *)
(***************************************************************************)
Base == 2 ^ 15

RECURSIVE BFromInt(_)
BFromInt(n) == IF n = 0 THEN <<>> ELSE <<n % Base>> \o BFromInt(n \div Base)

RECURSIVE BToInt(_)
BToInt(a) == IF a = <<>> THEN 0 ELSE a[1] + Base * BToInt(Tail(a))

RECURSIVE BNorm(_)
BNorm(a) ==
    IF a # <<>> /\ a[Len(a)] = 0 THEN BNorm(SubSeq(a, 1, Len(a) - 1)) ELSE a

Limb(a, i) == IF i <= Len(a) THEN a[i] ELSE 0
Rest(a) == IF a = <<>> THEN <<>> ELSE Tail(a)

RECURSIVE BAddC(_, _, _)
BAddC(a, b, c) ==
    IF a = <<>> /\ b = <<>> THEN (IF c = 0 THEN <<>> ELSE <<c>>)
    ELSE LET s == Limb(a, 1) + Limb(b, 1) + c
         IN  <<s % Base>> \o BAddC(Rest(a), Rest(b), s \div Base)
BAdd(a, b) == BAddC(a, b, 0)

\* a - b for a >= b.
RECURSIVE BSubB(_, _, _)
BSubB(a, b, borrow) ==
    IF a = <<>> THEN <<>>
    ELSE LET d == a[1] - Limb(b, 1) - borrow
         IN  IF d < 0 THEN <<d + Base>> \o BSubB(Tail(a), Rest(b), 1)
             ELSE <<d>> \o BSubB(Tail(a), Rest(b), 0)
BSub(a, b) == BNorm(BSubB(a, b, 0))

\* a * k + c for 0 <= k, c < Base.
RECURSIVE BMulSmallC(_, _, _)
BMulSmallC(a, k, c) ==
    IF a = <<>> THEN (IF c = 0 THEN <<>> ELSE <<c>>)
    ELSE LET p == a[1] * k + c
         IN  <<p % Base>> \o BMulSmallC(Tail(a), k, p \div Base)
BMulSmall(a, k) == IF k = 0 THEN <<>> ELSE BMulSmallC(a, k, 0)

RECURSIVE BMulR(_, _)
BMulR(a, b) ==
    IF b = <<>> THEN <<>>
    ELSE BAdd(BMulSmall(a, b[1]), <<0>> \o BMulR(a, Tail(b)))
BMul(a, b) == BNorm(BMulR(a, b))

RECURSIVE BCmpAt(_, _, _)
BCmpAt(a, b, i) ==
    IF i = 0 THEN 0
    ELSE IF a[i] < b[i] THEN -1
    ELSE IF a[i] > b[i] THEN 1
    ELSE BCmpAt(a, b, i - 1)
\* -1, 0 or 1 as a < b, a = b or a > b.
BCmp(a, b) ==
    IF Len(a) < Len(b) THEN -1
    ELSE IF Len(a) > Len(b) THEN 1
    ELSE BCmpAt(a, b, Len(a))

RECURSIVE IntBits(_)
IntBits(n) == IF n = 0 THEN 0 ELSE 1 + IntBits(n \div 2)
\* The number of bits of a.
BBits(a) == IF a = <<>> THEN 0 ELSE 15 * (Len(a) - 1) + IntBits(a[Len(a)])

\* a * 2^n.
BShl(a, n) ==
    IF a = <<>> THEN <<>>
    ELSE [i \in 1..(n \div 15) |-> 0] \o BMulSmall(a, 2 ^ (n % 15))

\* Quotient and remainder of a by d, 0 < d < Base.
RECURSIVE BDivSmallR(_, _)
BDivSmallR(a, d) ==
    IF a = <<>> THEN [q |-> <<>>, r |-> 0]
    ELSE LET hi == BDivSmallR(Tail(a), d)
             cur == hi.r * Base + a[1]
         IN  [q |-> <<cur \div d>> \o hi.q, r |-> cur % d]
BDivSmall(a, d) ==
    LET x == BDivSmallR(a, d) IN [q |-> BNorm(x.q), r |-> BFromInt(x.r)]

\* floor(a / 2^n).
BShr(a, n) ==
    IF n \div 15 >= Len(a) THEN <<>>
    ELSE BDivSmall(SubSeq(a, n \div 15 + 1, Len(a)), 2 ^ (n % 15)).q

\* The largest d in lo..hi with b * d <= r, given b * lo <= r.
RECURSIVE Digit(_, _, _, _)
Digit(r, b, lo, hi) ==
    IF lo = hi THEN lo
    ELSE LET mid == (lo + hi + 1) \div 2
         IN  IF BCmp(BMulSmall(b, mid), r) <= 0 THEN Digit(r, b, mid, hi)
             ELSE Digit(r, b, lo, mid - 1)

\* Long division, one limb of the quotient at a time from the top.
RECURSIVE BDivLong(_, _)
BDivLong(a, b) ==
    IF a = <<>> THEN [q |-> <<>>, r |-> <<>>]
    ELSE LET hi == BDivLong(Tail(a), b)
             r2 == BNorm(<<a[1]>> \o hi.r)
             d == Digit(r2, b, 0, Base - 1)
         IN  [q |-> <<d>> \o hi.q, r |-> BSub(r2, BMulSmall(b, d))]

\* Quotient and remainder of a by b > 0.
BDivMod(a, b) ==
    IF Len(b) = 1 THEN BDivSmall(a, b[1])
    ELSE LET x == BDivLong(a, b) IN [q |-> BNorm(x.q), r |-> x.r]

(***************************************************************************)
(* Python floats: IEEE-754 binary64, round to nearest, ties to even.  A    *)
(* float is [neg, m, e], the number (-1)^neg * m * 2^e with m odd and      *)
(* below 2^53, or m = 0.  The values of the model are far from the         *)
(* overflow and subnormal ranges, which are not modelled.                  *)
(***************************************************************************)
FZero == [neg |-> FALSE, m |-> <<>>, e |-> 0]

RECURSIVE TrailingZeros(_)
TrailingZeros(n) == IF n % 2 = 1 THEN 0 ELSE 1 + TrailingZeros(n \div 2)
\* The number of trailing zero bits of a # 0.
RECURSIVE TrailingBits(_)
TrailingBits(a) ==
    IF a[1] # 0 THEN TrailingZeros(a[1]) ELSE 15 + TrailingBits(Tail(a))

\* (-1)^neg * n * 2^e, the tz trailing zero bits of n moved into the exponent.
Odd(neg, n, e, tz) == [neg |-> neg, m |-> BShr(n, tz), e |-> e + tz]

\* The float of the exact value (-1)^neg * n * 2^e, for n below 2^54.
Canon(neg, n, e) == IF n = <<>> THEN FZero ELSE Odd(neg, n, e, TrailingBits(n))

\* q = floor(n / 2^shift): -1, 0 or 1 as the part of n that q drops is below,
\* at or above one half of 2^shift.
Halfway(n, q, shift) == BCmp(BSub(n, BShl(q, shift)), BShl(<<1>>, shift - 1))

\* q or q + 1, whichever is nearer; at one half (c = 0) up if more follows
\* (sticky), and to the even one if not.
Nearest(q, c, sticky) ==
    IF c > 0 \/ (c = 0 /\ (sticky \/ (q # <<>> /\ q[1] % 2 = 1)))
    THEN BAdd(q, <<1>>) ELSE q

\* n / 2^shift to the nearest natural.
RoundTo(n, shift, q, sticky) == Nearest(q, Halfway(n, q, shift), sticky)

Drop(neg, n, e, sticky, shift) ==
    Canon(neg, RoundTo(n, shift, BShr(n, shift), sticky), e + shift)

\* The float nearest to (-1)^neg * (n + t) * 2^e, where 0 < t < 1 if sticky
\* and t = 0 if not (sticky only with n of 55 bits or more).
FRound(neg, n, e, sticky) ==
    IF BBits(n) <= 53 THEN Canon(neg, n, e)
    ELSE Drop(neg, n, e, sticky, BBits(n) - 53)

\* float(i) for an int below 2^31 in absolute value.
F(i) == Canon(i < 0, BFromInt(Abs(i)), 0)

FNeg(a) == IF a.m = <<>> THEN a ELSE [a EXCEPT !.neg = ~a.neg]
FAbs(a) == [a EXCEPT !.neg = FALSE]

\* -1, 0, 1 comparing the magnitudes of a and b.
MagCmp(a, b) ==
    LET e == IF a.e < b.e THEN a.e ELSE b.e
    IN  IF a.m = <<>> /\ b.m = <<>> THEN 0
        ELSE IF a.m = <<>> THEN -1
        ELSE IF b.m = <<>> THEN 1
        ELSE IF BBits(a.m) + a.e # BBits(b.m) + b.e
        THEN (IF BBits(a.m) + a.e < BBits(b.m) + b.e THEN -1 ELSE 1)
        ELSE BCmp(BShl(a.m, a.e - e), BShl(b.m, b.e - e))

FLt(a, b) ==
    IF a.neg # b.neg THEN a.neg
    ELSE MagCmp(IF a.neg THEN b ELSE a, IF a.neg THEN a ELSE b) < 0
FLeq(a, b) == a = b \/ FLt(a, b)
FGt(a, b) == FLt(b, a)
FGeq(a, b) == FLeq(b, a)
\* max(a, b): a unless b is greater.
FMax(a, b) == IF FLt(a, b) THEN b ELSE a

\* The float nearest to (-1)^xn * x * 2^e + (-1)^yn * y * 2^e.
SignedSum(xn, x, yn, y, e) ==
    FRound(IF xn = yn \/ BCmp(x, y) >= 0 THEN xn ELSE yn,
           IF xn = yn THEN BAdd(x, y)
           ELSE IF BCmp(x, y) >= 0 THEN BSub(x, y) ELSE BSub(y, x),
           e, FALSE)

\* a + b for a, b # 0, both brought to the exponent e, the lesser of theirs.
Aligned(a, b, e) ==
    SignedSum(a.neg, BShl(a.m, a.e - e), b.neg, BShl(b.m, b.e - e), e)

FAdd(a, b) ==
    IF a.m = <<>> THEN b
    ELSE IF b.m = <<>> THEN a
    ELSE Aligned(a, b, IF a.e < b.e THEN a.e ELSE b.e)
FSub(a, b) == FAdd(a, FNeg(b))

FMul(a, b) == FRound(a.neg # b.neg, BMul(a.m, b.m), a.e + b.e, FALSE)

\* The float nearest to (-1)^neg * (x.q + t) * 2^e, t > 0 iff x.r # 0.
Quotient(neg, x, e) == FRound(neg, x.q, e, x.r # <<>>)

\* a / b with a.m scaled by 2^k.
Scaled(a, b, k) == Quotient(a.neg # b.neg, BDivMod(BShl(a.m, k), b.m), a.e - b.e - k)

\* a / b for b # 0: the quotient is taken to 55 bits or more, and the
\* remainder says whether it is exact.
FDiv(a, b) ==
    IF a.m = <<>> THEN FZero
    ELSE Scaled(a, b, IF BBits(a.m) < 55 + BBits(b.m)
                      THEN 55 + BBits(b.m) - BBits(a.m) ELSE 0)

\* The float a decimal literal n/d denotes (d a power of ten).
Dec(n, d) == FDiv(F(n), F(d))

RECURSIVE Pow10(_)
Pow10(k) == IF k = 0 THEN 1 ELSE 10 * Pow10(k - 1)

\* n * 2^e to the nearest natural, ties to even.
Whole(n, e) == IF e >= 0 THEN BShl(n, e) ELSE RoundTo(n, -e, BShr(n, -e), FALSE)

\* round(x, ndigits) for a float x >= 0: the decimal of ndigits places
\* nearest to the exact value of x, ties to even, and the float nearest to it.
py_round(x, ndigits) ==
    FDiv(Canon(FALSE, Whole(BMul(x.m, BFromInt(Pow10(ndigits))), x.e), 0),
         F(Pow10(ndigits)))

(***************************************************************************)
(* Python dict access and str -> number conversions                        *)
(***************************************************************************)
Get(d, k, default) == IF k \in DOMAIN d THEN d[k] ELSE default

Ok(v) == [ok |-> TRUE, val |-> v]
Raise(e) == [ok |-> FALSE, err |-> e]

Digits == {"0", "1", "2", "3", "4", "5", "6", "7", "8", "9"}

DigitVal(c) ==
    CASE c = "0" -> 0 [] c = "1" -> 1 [] c = "2" -> 2 [] c = "3" -> 3
      [] c = "4" -> 4 [] c = "5" -> 5 [] c = "6" -> 6 [] c = "7" -> 7
      [] c = "8" -> 8 [] c = "9" -> 9

RECURSIVE DigitsVal(_)
DigitsVal(s) ==
    IF s = <<>> THEN 0
    ELSE 10 * DigitsVal(SubSeq(s, 1, Len(s) - 1)) + DigitVal(s[Len(s)])

\* The literal default 0 of capabilities.get(name, 0), the str 'True', and None.
Zero == <<"#int0">>
TrueStr == <<"T", "r", "u", "e">>
None == <<"#None">>
\* None where the other values are dicts.
NoneDict == [none |-> TRUE]

\* py_int with a bug: a str that does not parse counts as 0.
py_int_lenient(v) ==
    IF v = Zero THEN Ok(0)
    ELSE IF Len(v) > 0 /\ \A i \in 1..Len(v) : v[i] \in Digits
         THEN Ok(DigitsVal(v))
         ELSE Ok(0)

\* int(v): v is the default 0 (an int already) or a str.  Of the strs of the
\* model (digits, letters, a decimal point; no sign, blank or underscore) the
\* non-empty runs of decimal digits convert, the others raise ValueError.
py_int(v) ==
    IF v = Zero THEN Ok(0)
    ELSE IF Len(v) > 0 /\ \A i \in 1..Len(v) : v[i] \in Digits
         THEN Ok(DigitsVal(v))
         ELSE Raise("ValueError")

\* float(v): of the strs of the model, those of digits with at most one
\* decimal point and at least one digit convert, to the nearest float.
py_float(v) ==
    IF v = Zero THEN Ok(F(0))
    ELSE LET dots == {i \in 1..Len(v) : v[i] = "."}
             digs == {i \in 1..Len(v) : v[i] \in Digits}
         IN  IF digs = {} \/ Cardinality(dots) > 1
                \/ dots \cup digs # 1..Len(v)
             THEN Raise("ValueError")
             ELSE IF dots = {} THEN Ok(F(DigitsVal(v)))
             ELSE LET p == CHOOSE i \in dots : TRUE
                      whole == SubSeq(v, 1, p - 1)
                      frac == SubSeq(v, p + 1, Len(v))
                  IN  Ok(Dec(DigitsVal(whole) * Pow10(Len(frac)) + DigitsVal(frac),
                             Pow10(Len(frac))))

(***************************************************************************)
(* extract_capabilities                                                    *)
(***************************************************************************)
\* capabilities[cap['name']] = cap['value'] for each cap in order: the last
\* pair of a name wins.
CapDict(sku) ==
    IF "capabilities" \in DOMAIN sku
    THEN LET caps == sku["capabilities"]
             Last(k) == CHOOSE i \in 1..Len(caps) :
                            /\ caps[i].name = k
                            /\ \A j \in (i + 1)..Len(caps) : caps[j].name # k
         IN  [k \in {caps[i].name : i \in 1..Len(caps)} |-> caps[Last(k)].value]
    ELSE <<>>

extract_capabilities(sku) ==
    LET capabilities == CapDict(sku)
        vCPUs == py_int(Get(capabilities, "vCPUs", Zero))
        memoryGB == py_float(Get(capabilities, "MemoryGB", Zero))
        maxDataDiskCount == py_int(Get(capabilities, "MaxDataDiskCount", Zero))
        maxNics == py_int(Get(capabilities, "MaxNetworkInterfaces", Zero))
        gpuCount == py_int(Get(capabilities, "GPUs", Zero))
        uncachedDiskIOPS == py_int(Get(capabilities, "UncachedDiskIOPS", Zero))
        uncachedDiskBytesPerSecond ==
            py_int(Get(capabilities, "UncachedDiskBytesPerSecond", Zero))
        cachedDiskIOPS == py_int(Get(capabilities, "CachedDiskIOPS", Zero))
        cachedDiskBytesPerSecond ==
            py_int(Get(capabilities, "CachedDiskBytesPerSecond", Zero))
        maxWriteAcceleratorDisks ==
            py_int(Get(capabilities, "MaxWriteAcceleratorDisksAllowed", Zero))
        numeric == <<vCPUs, memoryGB, maxDataDiskCount, maxNics, gpuCount,
                     uncachedDiskIOPS, uncachedDiskBytesPerSecond, cachedDiskIOPS,
                     cachedDiskBytesPerSecond, maxWriteAcceleratorDisks>>
    IN  IF \E i \in 1..Len(numeric) : ~numeric[i].ok
        THEN Raise("ValueError")
        ELSE Ok([vCPUs |-> vCPUs.val,
                 memoryGB |-> memoryGB.val,
                 maxDataDiskCount |-> maxDataDiskCount.val,
                 maxNics |-> maxNics.val,
                 premiumIO |-> Get(capabilities, "PremiumIO", None) = TrueStr,
                 ephemeralOSDisk |->
                     Get(capabilities, "EphemeralOSDiskSupported", None) = TrueStr,
                 acceleratedNetworking |->
                     Get(capabilities, "AcceleratedNetworkingEnabled", None) = TrueStr,
                 encryptionAtHost |->
                     Get(capabilities, "EncryptionAtHostSupported", None) = TrueStr,
                 gpuCount |-> gpuCount.val,
                 gpuType |-> Get(capabilities, "GPUName", None),
                 nvme |-> uncachedDiskIOPS.val > 100000,
                 uncachedDiskIOPS |-> uncachedDiskIOPS.val,
                 uncachedDiskBytesPerSecond |-> uncachedDiskBytesPerSecond.val,
                 cachedDiskIOPS |-> cachedDiskIOPS.val,
                 cachedDiskBytesPerSecond |-> cachedDiskBytesPerSecond.val,
                 maxWriteAcceleratorDisks |-> maxWriteAcceleratorDisks.val])

(***************************************************************************)
(* calculate_similarity                                                    *)
(***************************************************************************)
\* diff = abs(t - c) / t;  score = max(0, 100 - diff * 100), for t > 0.
relative_score(t, c) ==
    LET diff == FDiv(FAbs(FSub(t, c)), t)
    IN  FMax(F(0), FSub(F(100), FMul(diff, F(100))))

features == <<"premiumIO", "acceleratedNetworking", "encryptionAtHost", "ephemeralOSDisk">>

\* total_score / total_weight if total_weight > 0 else 0, for
\* total = [s |-> total_score, w |-> total_weight].
weighted_average(total) ==
    IF FGt(total.w, F(0)) THEN FDiv(total.s, total.w) ELSE F(0)

\* total_score += score * weight; total_weight += weight, if the dimension
\* is active.
accumulate(total, active, score, weight) ==
    IF active
    THEN [s |-> FAdd(total.s, FMul(score, weight)), w |-> FAdd(total.w, weight)]
    ELSE total

\* Each step is [s |-> total_score, w |-> total_weight] after one dimension.
calculate_similarity(target, candidate, weights, tolerance) ==
    LET acc0 == [s |-> F(0), w |-> F(0)]
        acc1 == accumulate(acc0, target.vCPUs > 0,
                           relative_score(F(target.vCPUs), F(candidate.vCPUs)),
                           weights["weightCPU"])
        acc2 == accumulate(acc1, FGt(target.memoryGB, F(0)),
                           relative_score(target.memoryGB, candidate.memoryGB),
                           weights["weightMemory"])
        acc3 == accumulate(acc2, target.gpuCount > 0 \/ candidate.gpuCount > 0,
                           IF target.gpuCount = candidate.gpuCount
                           THEN F(100) ELSE F(0),
                           weights["weightGPU"])
        acc4 == accumulate(acc3, target.uncachedDiskIOPS > 0,
                           relative_score(F(target.uncachedDiskIOPS),
                                          F(candidate.uncachedDiskIOPS)),
                           weights["weightStorage"])
        acc5 == accumulate(acc4, target.maxNics > 0,
                           relative_score(F(target.maxNics), F(candidate.maxNics)),
                           weights["weightNetwork"])
        feature_matches ==
            Cardinality({i \in 1..Len(features) :
                            target[features[i]] = candidate[features[i]]})
        feature_score == FMul(FDiv(F(feature_matches), F(Len(features))), F(100))
        acc6 == accumulate(acc5, TRUE, feature_score, weights["weightFeatures"])
    IN  weighted_average(acc6)

(***************************************************************************)
(* Inputs: the requests, the catalogue records and the service replies     *)
(***************************************************************************)
WindowsProduct == "Virtual Machines Dv3 Series Windows"
LinuxProduct == "Virtual Machines Dv3 Series"

Cap(name, value) == [name |-> name, value |-> value]
VM == <<"virtualMachines">>
EastUs == <<"eastus">>
WestUs == <<"westus">>
Std == <<Cap("MaxNetworkInterfaces", <<"2">>), Cap("PremiumIO", TrueStr),
         Cap("AcceleratedNetworkingEnabled", TrueStr),
         Cap("EncryptionAtHostSupported", <<"F", "a", "l", "s", "e">>)>>

\* A: 20 vCPUs, one GPU, NVMe-class storage, zones listed out of order.
SkuA == [name |-> <<"A">>, resourceType |-> VM,
         locationInfo |-> <<[location |-> WestUs, zones |-> <<"1">>],
                            [location |-> EastUs, zones |-> <<"3", "1", "2">>]>>,
         capabilities |-> <<Cap("vCPUs", <<"2", "0">>), Cap("MemoryGB", <<"1", "6">>),
                            Cap("GPUs", <<"1">>), Cap("GPUName", <<"V100">>),
                            Cap("UncachedDiskIOPS", <<"2", "0", "0", "0", "0", "0">>)>>
                          \o Std]
\* B: 18 vCPUs, no GPU, no NVMe-class storage, no zones in the location.
SkuB == [name |-> <<"B">>, resourceType |-> VM,
         locationInfo |-> <<[location |-> WestUs, zones |-> <<"1">>]>>,
         capabilities |-> <<Cap("vCPUs", <<"1", "8">>), Cap("MemoryGB", <<"1", "6">>),
                            Cap("UncachedDiskIOPS", <<"5", "0", "0", "0">>)>> \o Std]
\* C: 19 vCPUs, otherwise as A.
SkuC == [name |-> <<"C">>, resourceType |-> VM,
         capabilities |-> <<Cap("vCPUs", <<"1", "9">>), Cap("MemoryGB", <<"1", "6">>),
                            Cap("GPUs", <<"1">>),
                            Cap("UncachedDiskIOPS", <<"2", "0", "0", "0", "0", "0">>)>>
                          \o Std]
\* D: 16 vCPUs, half the memory, two GPUs, a vCPUs attribute given twice.
SkuD == [name |-> <<"D">>, resourceType |-> VM,
         capabilities |-> <<Cap("vCPUs", <<"6", "4">>), Cap("vCPUs", <<"1", "6">>),
                            Cap("MemoryGB", <<"8">>), Cap("GPUs", <<"2">>),
                            Cap("UncachedDiskIOPS", <<"1", "5", "0", "0", "0", "0">>)>>
                          \o Std]
\* E: 22 vCPUs (as far from A as B is), fractional memory, no GPU, no
\* NVMe-class storage.
SkuE == [name |-> <<"E">>, resourceType |-> VM,
         capabilities |-> <<Cap("vCPUs", <<"2", "2">>),
                            Cap("MemoryGB", <<"1", "7", ".", "5">>),
                            Cap("UncachedDiskIOPS", <<"5", "0", "0", "0">>)>> \o Std]
\* M: a numeric attribute that does not parse.
SkuM == [name |-> <<"M">>, resourceType |-> VM,
         capabilities |-> <<Cap("vCPUs", <<"4", "x">>), Cap("MemoryGB", <<"1", "6">>)>>]
\* N: a record without a name.
SkuN == [resourceType |-> VM,
         capabilities |-> <<Cap("vCPUs", <<"2", "0">>), Cap("MemoryGB", <<"1", "6">>)>>]
\* The records a catalogue reply is made of.  A list holds its records by
\* reference: the model's lists hold these keys, and Sku[k] is the record.
Sku == [k \in {"a", "b", "c", "d", "e", "m", "n"} |->
           CASE k = "a" -> SkuA [] k = "b" -> SkuB [] k = "c" -> SkuC
             [] k = "d" -> SkuD [] k = "e" -> SkuE [] k = "m" -> SkuM
             [] k = "n" -> SkuN]

\* The record a list element refers to.
Deref(k) == Sku[k]

\* The catalogue replies: the records of a listing, or of the listing read
\* backwards, with any of them left out, at most MaxSkus long.
Listing == <<"a", "b", "c", "d", "e", "m", "n">>
Reverse(s) == [i \in 1..Len(s) |-> s[Len(s) + 1 - i]]
Pick(s, keep) ==
    LET idx == SelectSeq([i \in 1..Len(s) |-> i], LAMBDA i : i \in keep)
    IN  [k \in 1..Len(idx) |-> s[idx[k]]]
Catalogues ==
    {Pick(l, keep) : l \in {Listing, Reverse(Listing)},
                     keep \in {k \in SUBSET (1..Len(Listing)) : Cardinality(k) <= MaxSkus}}

CpuOnly == [weightCPU |-> F(1), weightMemory |-> F(0), weightGPU |-> F(0),
            weightStorage |-> F(0), weightNetwork |-> F(0), weightFeatures |-> F(0)]

\* The JSON objects a request body may hold.
BodyDicts ==
    {sku @@ loc : sku \in {<<>>, [skuName |-> <<>>], [skuName |-> <<"A">>]},
                  loc \in {<<>>, [location |-> <<>>], [location |-> EastUs]}}
    \cup {[skuName |-> <<"A">>, location |-> EastUs] @@ nv @@ gp :
             nv \in {<<>>, [requireNVMeMatch |-> TRUE]},
             gp \in {<<>>, [requireGPUMatch |-> TRUE]}}
    \cup {[skuName |-> <<"A">>, location |-> EastUs, minSimilarityScore |-> F(85)]
          @@ CpuOnly}
    \cup {[skuName |-> <<"B">>, location |-> EastUs, requireNVMeMatch |-> TRUE,
           requireGPUMatch |-> TRUE, weightFeatures |-> F(0)],
          [skuName |-> <<"M">>, location |-> EastUs]}

\* A body is unparsable, JSON that is not an object, or a JSON object.
Bodies ==
    {[parsable |-> FALSE], [parsable |-> TRUE, object |-> FALSE]}
    \cup {[parsable |-> TRUE, object |-> TRUE, dict |-> d] : d \in BodyDicts}

Requests == {[method |-> "GET"]} \cup {[method |-> "POST", body |-> b] : b \in Bodies}

PricingReplies ==
    {[raised |-> TRUE],
     [raised |-> FALSE, ok |-> FALSE],
     [raised |-> FALSE, ok |-> TRUE, data |-> [Items |-> <<>>]],
     [raised |-> FALSE, ok |-> TRUE,
      data |-> [Items |-> <<[productName |-> WindowsProduct, unitPrice |-> Dec(3, 10),
                            currencyCode |-> "USD"],
                           [productName |-> LinuxProduct, unitPrice |-> Dec(12346, 100000),
                            currencyCode |-> "USD"]>>]]}

(***************************************************************************)
(* get_vm_pricing, get_availability_zones, get_access_token,               *)
(* get_vm_skus_for_location: each a function of the reply of the service   *)
(* it calls.                                                               *)
(***************************************************************************)
\* 'windows' in productName.lower(), over the product names of the model.
HasWindows(productName) == productName = WindowsProduct

\* get_vm_pricing with a bug: no try/except around the request, so that an
\* exception of the lookup reaches the caller.
get_vm_pricing_unguarded(reply) ==
    IF reply.raised THEN Raise("ConnectionError")
    ELSE IF ~reply.ok THEN Ok(NoneDict)
    ELSE LET Items == Get(reply.data, "Items", <<>>)
         IN  IF Items # <<>>
             THEN Ok([hourlyPrice |-> py_round(Items[1]["unitPrice"], 4),
                      monthlyPrice |-> py_round(FMul(Items[1]["unitPrice"], F(730)), 2),
                      currency |-> Items[1]["currencyCode"]])
             ELSE Ok(NoneDict)

\* reply: [raised |-> TRUE] when requests.get or response.json() raises,
\* else [raised |-> FALSE, ok |-> response.ok, data |-> the JSON dict].
\* The try/except of lines 290-319 turns every exception into None, so the
\* function itself never raises.
get_vm_pricing(reply) ==
    IF reply.raised THEN Ok(NoneDict)
    ELSE IF ~reply.ok THEN Ok(NoneDict)
    ELSE LET Items == Get(reply.data, "Items", <<>>)
         IN  IF Items # <<>>
             THEN LET linux == {i \in 1..Len(Items) :
                                   /\ "productName" \in DOMAIN Items[i]
                                   /\ ~HasWindows(Items[i]["productName"])}
                      price_item ==
                          IF linux # {}
                          THEN Items[CHOOSE i \in linux : \A j \in linux : i <= j]
                          ELSE Items[1]
                  IN  Ok([hourlyPrice |-> py_round(price_item["unitPrice"], 4),
                          monthlyPrice |->
                              py_round(FMul(price_item["unitPrice"], F(730)), 2),
                          currency |-> price_item["currencyCode"]])
             ELSE Ok(NoneDict)

\* sorted(zones): zone labels are one-digit strings.
RECURSIVE sorted(_)
sorted(zs) ==
    IF zs = <<>> THEN <<>>
    ELSE LET m == CHOOSE i \in 1..Len(zs) :
                      \A j \in 1..Len(zs) :
                          \/ DigitVal(zs[i]) < DigitVal(zs[j])
                          \/ (DigitVal(zs[i]) = DigitVal(zs[j]) /\ i <= j)
         IN  <<zs[m]>> \o sorted(SubSeq(zs, 1, m - 1) \o SubSeq(zs, m + 1, Len(zs)))

get_availability_zones(sku, location) ==
    IF "locationInfo" \in DOMAIN sku
    THEN LET infos == sku["locationInfo"]
             hits == {i \in 1..Len(infos) :
                         /\ Get(infos[i], "location", None) = location
                         /\ Get(infos[i], "zones", <<>>) # <<>>}
         IN  IF hits # {}
             THEN sorted(infos[CHOOSE i \in hits : \A j \in hits : i <= j]["zones"])
             ELSE <<>>
    ELSE <<>>

\* ', '.join(zones) if zones else 'N/A': the joined labels are kept as a tuple.
zones_text(zones) == IF zones # <<>> THEN zones ELSE <<"N/A">>

\* env: the MSI/IDENTITY endpoint variable set or not; reply: response.ok.
get_access_token(msi_endpoint, reply) ==
    IF ~msi_endpoint THEN Raise("Exception")
    ELSE IF ~reply.ok THEN Raise("Exception")
    ELSE Ok(reply.access_token)

\* reply: [ok, value]; only the records of resourceType virtualMachines stay.
get_vm_skus_for_location(reply) ==
    IF ~reply.ok THEN Raise("Exception")
    ELSE Ok(SelectSeq(Get(reply, "value", <<>>),
                      LAMBDA sku : Get(Deref(sku), "resourceType", None)
                                       = <<"virtualMachines">>))

(***************************************************************************)
(* The handler `main` as a state machine                                   *)
(***************************************************************************)
VARIABLES
    req,                  \* the HTTP request
    pc,                   \* where the handler is
    params,               \* the parameters read from the body (lines 41-53)
    all_skus,             \* the catalogue, once fetched
    target,               \* index of target_sku in all_skus
    target_capabilities,
    target_pricing,
    target_zones,
    alternatives,
    cursor,               \* index of the record the loop of line 117 is at
    response,             \* the HttpResponse returned
    tokenCalls,           \* calls of get_access_token
    fetchCalls,           \* calls of get_vm_skus_for_location
    extractLog,           \* indices of the records given to extract_capabilities
    scoreLog,             \* indices of the records given to calculate_similarity
    pricingLog,           \* indices of the records given to get_vm_pricing
    zoneLog,              \* indices of the records given to get_availability_zones
    pricingFailed,        \* indices of the records whose pricing lookup failed
    simIn,                \* scorer harness: the arguments of calculate_similarity
    simOut                \* scorer harness: its result

handlerVars == <<req, pc, params, all_skus, target, target_capabilities, target_pricing,
                 target_zones, alternatives, cursor, response, tokenCalls, fetchCalls,
                 extractLog, scoreLog, pricingLog, zoneLog, pricingFailed>>
simVars == <<simIn, simOut>>
vars == <<handlerVars, simVars>>

Falsy(v) == v = None \/ v = <<>>

\* What the log of failed pricing lookups records: the reply was an
\* exception, an HTTP error, or held no price item.
lookup_failed(reply) ==
    reply.raised \/ ~reply.ok \/ Get(reply.data, "Items", <<>>) = <<>>

HttpResponse(status, body) == [status |-> status, body |-> body]

\* The except clause of line 199.
InternalError(type) ==
    HttpResponse(500, [error |-> "Internal server error", type |-> type])

\* Lines 41-53: req_body.get(key, default) for each parameter.
read_params(d) ==
    [sku_name |-> Get(d, "skuName", None),
     location |-> Get(d, "location", None),
     tolerance |-> Get(d, "tolerance", F(20)),
     min_similarity_score |-> Get(d, "minSimilarityScore", F(60)),
     currency_code |-> Get(d, "currencyCode", "USD"),
     weights |-> [weightCPU |-> Get(d, "weightCPU", F(2)),
                  weightMemory |-> Get(d, "weightMemory", F(2)),
                  weightGPU |-> Get(d, "weightGPU", F(2)),
                  weightStorage |-> Get(d, "weightStorage", F(1)),
                  weightNetwork |-> Get(d, "weightNetwork", F(1)),
                  weightFeatures |-> Get(d, "weightFeatures", Dec(5, 10))],
     require_nvme_match |-> Get(d, "requireNVMeMatch", FALSE),
     require_gpu_match |-> Get(d, "requireGPUMatch", FALSE)]

NoParams == read_params(<<>>)

\* Line 56.
invalid_inputs(p) == Falsy(p.sku_name) \/ Falsy(p.location)

\* Line 98: next((s for s in all_skus if s['name'] == sku_name), None).  The
\* generator stops at the first match, and s['name'] raises KeyError at a
\* record without a name that it reaches before one.
find_target(skus, sku_name) ==
    LET stops == {i \in 1..Len(skus) :
                     \/ "name" \notin DOMAIN Deref(skus[i])
                     \/ Deref(skus[i])["name"] = sku_name}
    IN  IF stops = {} THEN Ok(0)
        ELSE LET i == CHOOSE k \in stops : \A j \in stops : k <= j
             IN  IF "name" \notin DOMAIN Deref(skus[i]) THEN Raise("KeyError") ELSE Ok(i)

\* is_target with a bug: the target itself is not skipped.
is_target_no_skip(sku, sku_name) == FALSE

\* Line 118.
is_target(sku, sku_name) == sku["name"] = sku_name

\* admits with a bug: the NVMe filter is missing.
admits_gpu_only(target_caps, sku_caps, require_nvme_match, require_gpu_match) ==
    ~(require_gpu_match /\ target_caps.gpuCount > 0 /\ sku_caps.gpuCount = 0)

\* Lines 124-127: FALSE when one of the two filters says `continue`.
admits(target_caps, sku_caps, require_nvme_match, require_gpu_match) ==
    /\ ~(require_nvme_match /\ target_caps.nvme /\ ~sku_caps.nvme)
    /\ ~(require_gpu_match /\ target_caps.gpuCount > 0 /\ sku_caps.gpuCount = 0)

\* Line 144.
meets_threshold(similarity_score, min_similarity_score) ==
    FGeq(similarity_score, min_similarity_score)

\* Lines 148-158.
alternative(sku, similarity_score, sku_capabilities, pricing, zones) ==
    [name |-> sku["name"],
     similarityScore |-> py_round(similarity_score, 2),
     vCPUs |-> sku_capabilities.vCPUs,
     memoryGB |-> sku_capabilities.memoryGB,
     gpuCount |-> sku_capabilities.gpuCount,
     gpuType |-> sku_capabilities.gpuType,
     pricing |-> pricing,
     zones |-> zones_text(zones),
     capabilities |-> sku_capabilities]

\* sort_alternatives with a bug: descending, but equal scores come out in
\* reverse input order (what sorting ascending and reversing would give).
RECURSIVE sort_alternatives_unstable(_)
sort_alternatives_unstable(alts) ==
    IF alts = <<>> THEN <<>>
    ELSE LET rest == sort_alternatives_unstable(SubSeq(alts, 1, Len(alts) - 1))
             x == alts[Len(alts)]
             before == {i \in 1..Len(rest) :
                           FGt(rest[i].similarityScore, x.similarityScore)}
             k == Cardinality(before)
         IN  SubSeq(rest, 1, k) \o <<x>> \o SubSeq(rest, k + 1, Len(rest))

\* Line 161: alternatives.sort(key=similarityScore, reverse=True).  list.sort
\* is stable, also with reverse=True: equal keys keep their order.
RECURSIVE sort_alternatives(_)
sort_alternatives(alts) ==
    IF alts = <<>> THEN <<>>
    ELSE LET rest == sort_alternatives(SubSeq(alts, 1, Len(alts) - 1))
             x == alts[Len(alts)]
             before == {i \in 1..Len(rest) :
                           FGeq(rest[i].similarityScore, x.similarityScore)}
             k == Cardinality(before)
         IN  SubSeq(rest, 1, k) \o <<x>> \o SubSeq(rest, k + 1, Len(rest))

\* Lines 166-197.
success_response(p, target_sku, caps, pricing, zones, alts) ==
    HttpResponse(200,
        [targetSku |-> [name |-> target_sku["name"],
                        vCPUs |-> caps.vCPUs,
                        memoryGB |-> caps.memoryGB,
                        gpuCount |-> caps.gpuCount,
                        gpuType |-> caps.gpuType,
                        pricing |-> pricing,
                        zones |-> zones_text(zones),
                        capabilities |-> caps],
         alternatives |-> alts,
         searchParameters |-> [location |-> p.location,
                               tolerance |-> p.tolerance,
                               minSimilarityScore |-> p.min_similarity_score,
                               weights |-> [cpu |-> p.weights["weightCPU"],
                                            memory |-> p.weights["weightMemory"],
                                            gpu |-> p.weights["weightGPU"],
                                            storage |-> p.weights["weightStorage"],
                                            network |-> p.weights["weightNetwork"],
                                            features |-> p.weights["weightFeatures"]]]])

SimIdle == [target |-> <<>>, candidate |-> <<>>, weights |-> <<>>]

Init ==
    /\ req \in Requests
    /\ pc = "start"
    /\ params = NoParams
    /\ all_skus = <<>>
    /\ target = 0
    /\ target_capabilities = <<>>
    /\ target_pricing = NoneDict
    /\ target_zones = <<>>
    /\ alternatives = <<>>
    /\ cursor = 0
    /\ response = <<>>
    /\ tokenCalls = 0
    /\ fetchCalls = 0
    /\ extractLog = {}
    /\ scoreLog = {}
    /\ pricingLog = {}
    /\ zoneLog = {}
    /\ pricingFailed = {}
    /\ simIn = SimIdle
    /\ simOut = <<>>

Return(r) == response' = r /\ pc' = "done"

\* Lines 17-26.
HandleGet ==
    /\ pc = "start" /\ req.method = "GET"
    /\ Return(HttpResponse(200, [message |-> "compare-vms endpoint is running (Python)"]))
    /\ UNCHANGED <<req, params, all_skus, target, target_capabilities, target_pricing,
                   target_zones, alternatives, cursor, tokenCalls, fetchCalls, extractLog,
                   scoreLog, pricingLog, zoneLog, pricingFailed, simVars>>

\* Lines 29-61: parse the body, read the parameters, validate them.  A body
\* that is JSON but no object has no .get: AttributeError, caught at line 199.
ParseAndValidate ==
    /\ pc = "start" /\ req.method = "POST"
    /\ IF ~req.body.parsable
       THEN /\ Return(HttpResponse(400, [error |-> "Invalid JSON in request body"]))
            /\ UNCHANGED params
       ELSE IF ~req.body.object
       THEN /\ Return(InternalError("AttributeError"))
            /\ UNCHANGED params
       ELSE /\ params' = read_params(req.body.dict)
            /\ IF invalid_inputs(params')
               THEN Return(HttpResponse(400, [error |-> "skuName and location are required"]))
               ELSE pc' = "config" /\ UNCHANGED response
    /\ UNCHANGED <<req, all_skus, target, target_capabilities, target_pricing,
                   target_zones, alternatives, cursor, tokenCalls, fetchCalls, extractLog,
                   scoreLog, pricingLog, zoneLog, pricingFailed, simVars>>

\* Lines 63-76: AZURE_SUBSCRIPTION_ID set or not.
CheckSubscription ==
    /\ pc = "config"
    /\ \E subscription_id \in {None, <<"sub">>} :
          IF Falsy(subscription_id)
          THEN Return(HttpResponse(500, [error |-> "Server configuration error"]))
          ELSE pc' = "auth" /\ UNCHANGED response
    /\ UNCHANGED <<req, params, all_skus, target, target_capabilities, target_pricing,
                   target_zones, alternatives, cursor, tokenCalls, fetchCalls, extractLog,
                   scoreLog, pricingLog, zoneLog, pricingFailed, simVars>>

\* Lines 78-91.
GetAccessToken ==
    /\ pc = "auth"
    /\ tokenCalls' = tokenCalls + 1
    /\ \E msi_endpoint \in BOOLEAN,
          reply \in {[ok |-> FALSE], [ok |-> TRUE, access_token |-> "token"]} :
          IF get_access_token(msi_endpoint, reply).ok
          THEN pc' = "fetch" /\ UNCHANGED response
          ELSE Return(HttpResponse(500, [error |-> "Authentication failed"]))
    /\ UNCHANGED <<req, params, all_skus, target, target_capabilities, target_pricing,
                   target_zones, alternatives, cursor, fetchCalls, extractLog,
                   scoreLog, pricingLog, zoneLog, pricingFailed, simVars>>

\* Lines 93-95; an exception of the fetch is caught at line 199.
FetchSkus ==
    /\ pc = "fetch"
    /\ fetchCalls' = fetchCalls + 1
    /\ \E reply \in {[ok |-> FALSE]} \cup {[ok |-> TRUE, value |-> c] : c \in Catalogues} :
          LET skus == get_vm_skus_for_location(reply)
          IN  IF skus.ok
              THEN all_skus' = skus.val /\ pc' = "find" /\ UNCHANGED response
              ELSE Return(InternalError(skus.err)) /\ UNCHANGED all_skus
    /\ UNCHANGED <<req, params, target, target_capabilities, target_pricing,
                   target_zones, alternatives, cursor, tokenCalls, extractLog,
                   scoreLog, pricingLog, zoneLog, pricingFailed, simVars>>

\* Lines 97-104.
FindTarget ==
    /\ pc = "find"
    /\ LET target_sku == find_target(all_skus, params.sku_name)
       IN  IF ~target_sku.ok
           THEN Return(InternalError(target_sku.err)) /\ UNCHANGED target
           ELSE IF target_sku.val = 0
           THEN Return(HttpResponse(404, [error |-> "SKU not found in location"]))
                /\ UNCHANGED target
           ELSE target' = target_sku.val /\ pc' = "extract" /\ UNCHANGED response
    /\ UNCHANGED <<req, params, all_skus, target_capabilities, target_pricing,
                   target_zones, alternatives, cursor, tokenCalls, fetchCalls, extractLog,
                   scoreLog, pricingLog, zoneLog, pricingFailed, simVars>>

\* Line 107.
ExtractTarget ==
    /\ pc = "extract"
    /\ extractLog' = extractLog \cup {target}
    /\ LET caps == extract_capabilities(Deref(all_skus[target]))
       IN  IF caps.ok
           THEN target_capabilities' = caps.val /\ pc' = "enrich" /\ UNCHANGED response
           ELSE Return(InternalError(caps.err)) /\ UNCHANGED target_capabilities
    /\ UNCHANGED <<req, params, all_skus, target, target_pricing,
                   target_zones, alternatives, cursor, tokenCalls, fetchCalls,
                   scoreLog, pricingLog, zoneLog, pricingFailed, simVars>>

\* Lines 109-116.
EnrichTarget ==
    /\ pc = "enrich"
    /\ pricingLog' = pricingLog \cup {target}
    /\ \E reply \in PricingReplies :
          LET pricing == get_vm_pricing(reply)
          IN  /\ pricingFailed' = IF lookup_failed(reply)
                                  THEN pricingFailed \cup {target} ELSE pricingFailed
              /\ IF ~pricing.ok
                 THEN /\ Return(InternalError(pricing.err))
                      /\ UNCHANGED <<target_pricing, target_zones, zoneLog, alternatives,
                                     cursor>>
                 ELSE /\ target_pricing' = pricing.val
                      /\ target_zones' = get_availability_zones(Deref(all_skus[target]),
                                                                params.location)
                      /\ zoneLog' = zoneLog \cup {target}
                      /\ alternatives' = <<>>
                      /\ cursor' = 1
                      /\ pc' = "loop"
                      /\ UNCHANGED response
    /\ UNCHANGED <<req, params, all_skus, target, target_capabilities,
                   tokenCalls, fetchCalls, extractLog, scoreLog, simVars>>

\* Lines 117-158: one turn of the loop, for the record at the cursor.
CompareSku ==
    /\ pc = "loop" /\ cursor <= Len(all_skus)
    /\ LET sku == Deref(all_skus[cursor])
           Skip == /\ cursor' = cursor + 1
                   /\ UNCHANGED <<pc, response, alternatives, pricingLog, zoneLog,
                                  pricingFailed>>
       IN  IF "name" \notin DOMAIN sku
           THEN /\ Return(InternalError("KeyError"))
                /\ UNCHANGED <<cursor, alternatives, extractLog, scoreLog, pricingLog,
                               zoneLog, pricingFailed>>
           ELSE IF is_target(sku, params.sku_name)
           THEN Skip /\ UNCHANGED <<extractLog, scoreLog>>
           ELSE LET sku_capabilities == extract_capabilities(sku)
                IN  /\ extractLog' = extractLog \cup {cursor}
                    /\ IF ~sku_capabilities.ok
                       THEN /\ Return(InternalError(sku_capabilities.err))
                            /\ UNCHANGED <<cursor, alternatives, scoreLog, pricingLog,
                                           zoneLog, pricingFailed>>
                       ELSE IF ~admits(target_capabilities, sku_capabilities.val,
                                       params.require_nvme_match, params.require_gpu_match)
                       THEN Skip /\ UNCHANGED scoreLog
                       ELSE LET similarity_score ==
                                    calculate_similarity(target_capabilities,
                                                         sku_capabilities.val,
                                                         params.weights, params.tolerance)
                            IN  /\ scoreLog' = scoreLog \cup {cursor}
                                /\ IF meets_threshold(similarity_score,
                                                      params.min_similarity_score)
                                   THEN \E reply \in PricingReplies :
                                          LET pricing == get_vm_pricing(reply)
                                              zones == get_availability_zones(
                                                           sku, params.location)
                                          IN  /\ pricingLog' = pricingLog \cup {cursor}
                                              /\ pricingFailed' =
                                                     IF lookup_failed(reply)
                                                     THEN pricingFailed \cup {cursor}
                                                     ELSE pricingFailed
                                              /\ IF ~pricing.ok
                                                 THEN /\ Return(InternalError(pricing.err))
                                                      /\ UNCHANGED <<cursor, alternatives,
                                                                     zoneLog>>
                                                 ELSE /\ alternatives' =
                                                            Append(alternatives,
                                                              alternative(sku,
                                                                similarity_score,
                                                                sku_capabilities.val,
                                                                pricing.val, zones))
                                                      /\ zoneLog' = zoneLog \cup {cursor}
                                                      /\ cursor' = cursor + 1
                                                      /\ UNCHANGED <<pc, response>>
                                   ELSE Skip
    /\ UNCHANGED <<req, params, all_skus, target, target_capabilities, target_pricing,
                   target_zones, tokenCalls, fetchCalls, simVars>>

\* Lines 160-197: the loop is over; sort and answer.
SortAndRespond ==
    /\ pc = "loop" /\ cursor > Len(all_skus)
    /\ alternatives' = sort_alternatives(alternatives)
    /\ Return(success_response(params, Deref(all_skus[target]), target_capabilities,
                                target_pricing, target_zones, alternatives'))
    /\ UNCHANGED <<req, params, all_skus, target, target_capabilities, target_pricing,
                   target_zones, cursor, tokenCalls, fetchCalls, extractLog, scoreLog,
                   pricingLog, zoneLog, pricingFailed, simVars>>

\* The scorer on its own: calculate_similarity applied to arguments drawn
\* from SimInputs.
SimProfiles ==
    {[vCPUs |-> c, memoryGB |-> m, gpuCount |-> g, uncachedDiskIOPS |-> io,
      maxNics |-> IF io = 0 THEN 0 ELSE 2, premiumIO |-> f,
      acceleratedNetworking |-> TRUE, encryptionAtHost |-> FALSE,
      ephemeralOSDisk |-> FALSE] :
        c \in 0..MaxVal, m \in {F(0), Dec(35, 10)}, g \in {0, 1}, io \in {0, 5000},
        f \in BOOLEAN}

\* Six weights, in the order of the request's parameters.
Weights(cpu, memory, gpu, storage, network, feats) ==
    [weightCPU |-> cpu, weightMemory |-> memory, weightGPU |-> gpu,
     weightStorage |-> storage, weightNetwork |-> network, weightFeatures |-> feats]

\* All 0; the defaults; the CPU alone; the GPU alone; and weights that are
\* no multiples of a power of two (0.1 with 0.7, 0.1 with 0.2).
SimWeights ==
    {Weights(F(0), F(0), F(0), F(0), F(0), F(0)),
     Weights(F(2), F(2), F(2), F(1), F(1), Dec(5, 10)),
     Weights(F(2), F(0), F(0), F(0), F(0), F(0)),
     Weights(F(0), F(0), F(2), F(0), F(0), F(0)),
     Weights(F(0), Dec(1, 10), F(0), F(0), F(0), Dec(7, 10)),
     Weights(F(0), Dec(1, 10), F(0), F(0), F(0), Dec(2, 10))}

SimInputs == [target : SimProfiles, candidate : SimProfiles, weights : SimWeights]

SimInit ==
    /\ simIn \in SimInputs
    /\ simOut = <<>>
    /\ req = [method |-> "GET"]
    /\ pc = "idle"
    /\ params = NoParams
    /\ all_skus = <<>>
    /\ target = 0
    /\ target_capabilities = <<>>
    /\ target_pricing = NoneDict
    /\ target_zones = <<>>
    /\ alternatives = <<>>
    /\ cursor = 0
    /\ response = <<>>
    /\ tokenCalls = 0
    /\ fetchCalls = 0
    /\ extractLog = {}
    /\ scoreLog = {}
    /\ pricingLog = {}
    /\ zoneLog = {}
    /\ pricingFailed = {}

SimCall ==
    /\ simOut = <<>>
    /\ simIn \in SimInputs
    /\ simOut' = <<calculate_similarity(simIn.target, simIn.candidate, simIn.weights,
                                        F(20))>>
    /\ UNCHANGED <<simIn, handlerVars>>

SimNext == SimCall

SpecSim == SimInit /\ [][SimNext]_vars

Next ==
    \/ HandleGet
    \/ ParseAndValidate
    \/ CheckSubscription
    \/ GetAccessToken
    \/ FetchSkus
    \/ FindTarget
    \/ ExtractTarget
    \/ EnrichTarget
    \/ CompareSku
    \/ SortAndRespond

Spec == Init /\ [][Next]_vars

(***************************************************************************)
(* Properties                                                              *)
(***************************************************************************)
Done == pc = "done"
Success == Done /\ response.status = 200 /\ "alternatives" \in DOMAIN response.body
ServerError == Done /\ response.status = 500
\* The catalogue fetch raised (the only plain Exception that reaches line 199).
FetchFailed ==
    /\ ServerError /\ "type" \in DOMAIN response.body
    /\ response.body.type = "Exception"
\* The handler got a catalogue.
Fetched == fetchCalls = 1 /\ pc # "fetch" /\ ~FetchFailed

Indices == 1..Len(all_skus)
Named(i) == "name" \in DOMAIN Deref(all_skus[i])
NameAt(i) == Deref(all_skus[i])["name"]
IsTargetName(i) == Named(i) /\ NameAt(i) = params.sku_name
TargetExists == \E i \in Indices : IsTargetName(i)
FirstTarget == CHOOSE i \in Indices : IsTargetName(i) /\ \A j \in Indices : IsTargetName(j) => i <= j
Pos(name) == CHOOSE i \in Indices : Named(i) /\ NameAt(i) = name
\* extract_capabilities of every record of the model, tabulated.
ExtractedPool == [k \in DOMAIN Sku |-> extract_capabilities(Sku[k])]
CapsAt(i) == ExtractedPool[all_skus[i]].val
ScoreAt(i) == calculate_similarity(CapsAt(FirstTarget), CapsAt(i), params.weights,
                                   params.tolerance)
AltNames(alts) == {alts[k].name : k \in 1..Len(alts)}

\* The match filter as the specification states it.
FilterRejects(t, c, requireNVMeMatch, requireGPUMatch) ==
    \/ (requireNVMeMatch /\ t.nvme /\ ~c.nvme)
    \/ (requireGPUMatch /\ t.gpuCount > 0 /\ c.gpuCount = 0)
RejectedAt(i) == FilterRejects(CapsAt(FirstTarget), CapsAt(i), params.require_nvme_match,
                               params.require_gpu_match)

\* The records the comparison has to return: another name than the target's,
\* admitted by the filter, scoring at least minSimilarityScore.
Qualifying ==
    {i \in Indices : /\ NameAt(i) # params.sku_name
                     /\ ~RejectedAt(i)
                     /\ FGeq(ScoreAt(i), params.min_similarity_score)}

\* C1: the alternatives returned are exactly the catalogue records that have
\* another name than the target, pass the match filter and score at least
\* minSimilarityScore: none of the others, and each of these once.
C1_AlternativesExact ==
    Success =>
        /\ AltNames(response.body.alternatives) = {NameAt(i) : i \in Qualifying}
        /\ Len(response.body.alternatives) = Cardinality(Qualifying)

\* The ranking scenario: candidates scoring 90, 95 and 80 in this order with
\* minSimilarityScore = 85 give exactly [95, 90].
C1_Witness ==
    /\ Success
    /\ params.min_similarity_score = F(85)
    /\ all_skus = <<"a", "b", "c", "d">>
    /\ Len(response.body.alternatives) = 2
    /\ response.body.alternatives[1].name = <<"C">>
    /\ response.body.alternatives[1].similarityScore = F(95)
    /\ response.body.alternatives[2].name = <<"B">>
    /\ response.body.alternatives[2].similarityScore = F(90)

\* C2: in a successful response the alternatives are in descending order of
\* similarityScore, equal scores in the order of their records in the
\* catalogue; while the loop collects, the list is in catalogue order (the
\* sort has not run), and the response is built once the loop is over.
C2_SortedStable ==
    /\ pc = "loop" =>
          \A p, q \in 1..Len(alternatives) :
              p < q => Pos(alternatives[p].name) < Pos(alternatives[q].name)
    /\ Success =>
          /\ cursor = Len(all_skus) + 1
          /\ LET alts == response.body.alternatives
             IN  \A p, q \in 1..Len(alts) :
                    p < q =>
                      /\ FGeq(alts[p].similarityScore, alts[q].similarityScore)
                      /\ alts[p].similarityScore = alts[q].similarityScore
                            => Pos(alts[p].name) < Pos(alts[q].name)

\* A response with two alternatives of equal score, and one alternative that
\* the sort moved in front of a record that precedes it in the catalogue.
C2_Witness ==
    /\ Success
    /\ LET alts == response.body.alternatives
       IN  /\ \E p, q \in 1..Len(alts) :
                 p < q /\ alts[p].similarityScore = alts[q].similarityScore
           /\ \E p, q \in 1..Len(alts) :
                 p < q /\ Pos(alts[p].name) > Pos(alts[q].name)

\* The records the loop has been through without an exception.
Compared ==
    IF pc \in {"loop", "done"} /\ cursor >= 1
    THEN {i \in 1..(cursor - 1) : ~IsTargetName(i)}
    ELSE {}

\* C3: a record the loop has compared was rejected by the filter iff
\* (requireNVMeMatch and target.nvme and not candidate.nvme) or
\* (requireGPUMatch and target.gpuCount > 0 and candidate.gpuCount = 0); a
\* rejected record is never scored, never given to the pricing or zone lookup
\* and never among the alternatives; every other compared record is scored.
C3_FilterBeforeScoring ==
    \A i \in Compared :
        IF RejectedAt(i)
        THEN /\ i \notin scoreLog
             /\ i \notin pricingLog
             /\ i \notin zoneLog
             /\ NameAt(i) \notin AltNames(alternatives)
             /\ Done /\ "alternatives" \in DOMAIN response.body
                    => NameAt(i) \notin AltNames(response.body.alternatives)
        ELSE i \in scoreLog

\* A finished comparison in which the NVMe filter rejected a record and
\* admitted another, which was scored and enriched.
C3_Witness ==
    /\ Success
    /\ params.require_nvme_match /\ ~params.require_gpu_match
    /\ \E i \in Compared : RejectedAt(i)
    /\ \E i \in Compared : ~RejectedAt(i) /\ i \in pricingLog

\* The weights of the dimensions that are active for a pair of profiles, by
\* the guards the specification gives: the features are always active.
ActiveWeights(in) ==
    LET t == in.target
        c == in.candidate
    IN  {"weightFeatures"}
        \cup (IF t.vCPUs > 0 THEN {"weightCPU"} ELSE {})
        \cup (IF FGt(t.memoryGB, F(0)) THEN {"weightMemory"} ELSE {})
        \cup (IF t.gpuCount > 0 \/ c.gpuCount > 0 THEN {"weightGPU"} ELSE {})
        \cup (IF t.uncachedDiskIOPS > 0 THEN {"weightStorage"} ELSE {})
        \cup (IF t.maxNics > 0 THEN {"weightNetwork"} ELSE {})

\* The summed weight of the active dimensions is positive: the weights are
\* not negative, so one of them is.
PositiveWeight(in) == \E k \in ActiveWeights(in) : FGt(in.weights[k], F(0))

InRange(x) == FGeq(x, F(0)) /\ FLeq(x, F(100))

\* The sub-score of every active relative-difference dimension is in [0, 100].
SubScoresInRange(t, c) ==
    /\ t.vCPUs > 0 => InRange(relative_score(F(t.vCPUs), F(c.vCPUs)))
    /\ FGt(t.memoryGB, F(0)) => InRange(relative_score(t.memoryGB, c.memoryGB))
    /\ t.uncachedDiskIOPS > 0 =>
          InRange(relative_score(F(t.uncachedDiskIOPS), F(c.uncachedDiskIOPS)))
    /\ t.maxNics > 0 => InRange(relative_score(F(t.maxNics), F(c.maxNics)))

\* C4: for non-negative profiles and weights calculate_similarity returns a
\* value in [0, 100]; the sub-score of every active relative-difference
\* dimension is in [0, 100]; and when the summed weight of the active
\* dimensions is 0 the result is 0.
C4_ScoreInRange ==
    simOut # <<>> =>
        /\ InRange(simOut[1])
        /\ SubScoresInRange(simIn.target, simIn.candidate)
        /\ ~PositiveWeight(simIn) => simOut[1] = F(0)

\* What holds in place of C4: the result is never below 0, and is in
\* [0, 100] once rounded to the two places the response reports.
C4_RoundedScoreInRange ==
    simOut # <<>> =>
        /\ FGeq(simOut[1], F(0))
        /\ InRange(py_round(simOut[1], 2))
        /\ SubScoresInRange(simIn.target, simIn.candidate)
        /\ ~PositiveWeight(simIn) => simOut[1] = F(0)

\* C5: a profile scored against itself gives 100 whenever the summed weight
\* of its active dimensions is positive, and 0 when every weight is 0.
C5_SelfSimilarity ==
    simOut # <<>> /\ simIn.target = simIn.candidate =>
        /\ PositiveWeight(simIn) => simOut[1] = F(100)
        /\ (\A k \in DOMAIN simIn.weights : simIn.weights[k] = F(0)) => simOut[1] = F(0)

\* What holds in place of C5: the self-score is 100 once rounded to the two
\* places the response reports, and 0 when no active dimension has a weight.
C5_RoundedSelfSimilarity ==
    simOut # <<>> /\ simIn.target = simIn.candidate =>
        /\ PositiveWeight(simIn) => py_round(simOut[1], 2) = F(100)
        /\ ~PositiveWeight(simIn) => simOut[1] = F(0)

NoComparisonWork ==
    extractLog = {} /\ scoreLog = {} /\ pricingLog = {} /\ zoneLog = {}

\* C6: when the catalogue holds no record named as the target, the answer is
\* 404, nothing was extracted, scored or looked up, and no alternatives are
\* returned.
C6_NotFound ==
    Done /\ Fetched /\ ~TargetExists =>
        /\ response.status = 404
        /\ NoComparisonWork
        /\ "alternatives" \notin DOMAIN response.body

\* C6 for catalogues in which every record has a name.
C6_NotFoundAllNamed ==
    Done /\ Fetched /\ ~TargetExists /\ (\A i \in Indices : Named(i)) =>
        /\ response.status = 404
        /\ NoComparisonWork
        /\ "alternatives" \notin DOMAIN response.body

\* C7: a record without a name does not fail the request: it is passed over
\* by the target lookup and by the loop.
C7_NamelessPassThrough ==
    Done /\ Fetched /\ (\E i \in Indices : ~Named(i)) =>
        ~(response.status = 500 /\ response.body.type = "KeyError")

\* A numeric attribute of the record that is present and is no number: from
\* the attribute list, independent of extract_capabilities.
IntAttributes ==
    {"vCPUs", "MaxDataDiskCount", "MaxNetworkInterfaces", "GPUs", "UncachedDiskIOPS",
     "UncachedDiskBytesPerSecond", "CachedDiskIOPS", "CachedDiskBytesPerSecond",
     "MaxWriteAcceleratorDisksAllowed"}
IsInteger(v) == Len(v) > 0 /\ \A k \in 1..Len(v) : v[k] \in Digits
IsDecimal(v) ==
    /\ \E k \in 1..Len(v) : v[k] \in Digits
    /\ \A k \in 1..Len(v) : v[k] \in Digits \cup {"."}
    /\ Cardinality({k \in 1..Len(v) : v[k] = "."}) <= 1
Unparsable(sku) ==
    LET d == CapDict(sku)
    IN  \/ \E a \in IntAttributes \cap DOMAIN d : ~IsInteger(d[a])
        \/ "MemoryGB" \in DOMAIN d /\ ~IsDecimal(d["MemoryGB"])

\* C8: when the target exists and the target, or a record of another name
\* anywhere in the catalogue, has a numeric attribute that is present but
\* unparsable, the answer is a server error without an alternatives list.
C8_ExtractionFatal ==
    /\ Done /\ Fetched /\ TargetExists
    /\ \E i \in Indices :
          /\ Named(i)
          /\ (i = FirstTarget \/ NameAt(i) # params.sku_name)
          /\ Unparsable(Deref(all_skus[i]))
    => /\ response.status = 500
       /\ "alternatives" \notin DOMAIN response.body

\* A comparison that had collected an alternative when it reached the
\* malformed record, and answered 500.
C8_Witness ==
    /\ ServerError /\ Fetched
    /\ response.body.type = "ValueError"
    /\ alternatives # <<>>
    /\ cursor > target

\* The catalogue and the request allow the comparison to succeed.
Healthy ==
    /\ Fetched /\ TargetExists
    /\ \A i \in Indices : Named(i) /\ ~Unparsable(Deref(all_skus[i]))

\* C9: whatever pricing lookups fail, a comparison that can succeed does:
\* every qualifying record is among the alternatives with its score, at the
\* place its score and its catalogue position give it; its pricing is null
\* iff its own lookup failed, and is the looked-up price otherwise.
C9_PricingIsolated ==
    Done /\ Healthy =>
        /\ response.status = 200
        /\ LET alts == response.body.alternatives
               qualifying == Qualifying
               at == [k \in 1..Len(alts) |-> Pos(alts[k].name)]
           IN  /\ Len(alts) = Cardinality(qualifying)
               /\ {at[k] : k \in 1..Len(alts)} = qualifying
               /\ \A k \in 1..Len(alts) :
                     /\ alts[k].similarityScore = py_round(ScoreAt(at[k]), 2)
                     /\ at[k] \in pricingLog
                     /\ IF at[k] \in pricingFailed
                        THEN alts[k].pricing = NoneDict
                        ELSE /\ alts[k].pricing # NoneDict
                             /\ alts[k].pricing.hourlyPrice = Dec(1235, 10000)
                             /\ alts[k].pricing.monthlyPrice = Dec(9013, 100)
               /\ \A k \in 1..(Len(alts) - 1) :
                     \/ FGt(alts[k].similarityScore, alts[k + 1].similarityScore)
                     \/ /\ alts[k].similarityScore = alts[k + 1].similarityScore
                        /\ at[k] < at[k + 1]
        /\ IF FirstTarget \in pricingFailed
           THEN response.body.targetSku.pricing = NoneDict
           ELSE response.body.targetSku.pricing # NoneDict

\* A response in which the lookup of one alternative failed and that of an
\* alternative compared after it did not.
C9_Witness ==
    /\ Success
    /\ LET alts == response.body.alternatives
       IN  \E p, q \in 1..Len(alts) :
              /\ Pos(alts[p].name) < Pos(alts[q].name)
              /\ Pos(alts[p].name) \in pricingFailed
              /\ Pos(alts[q].name) \notin pricingFailed
              /\ alts[p].pricing = NoneDict
              /\ alts[q].pricing # NoneDict

\* The body lacks a required field: it is no JSON, no JSON object, or an
\* object without the key.
Lacks(key) ==
    \/ ~req.body.parsable
    \/ ~req.body.object
    \/ key \notin DOMAIN req.body.dict

\* C10: a POST whose body is unparsable or lacks skuName or location is
\* answered 400, and no token, catalogue or pricing request is made for it.
C10_ValidationFirst ==
    Done /\ req.method = "POST" /\ (Lacks("skuName") \/ Lacks("location")) =>
        /\ response.status = 400
        /\ tokenCalls = 0 /\ fetchCalls = 0 /\ pricingLog = {}

\* C10 for bodies that are unparsable or JSON objects.
C10_ValidationFirstObjects ==
    /\ Done /\ req.method = "POST" /\ (Lacks("skuName") \/ Lacks("location"))
    /\ (req.body.parsable => req.body.object)
    => /\ response.status = 400
       /\ tokenCalls = 0 /\ fetchCalls = 0 /\ pricingLog = {}

====
